---- MODULE Spec2Model ----
(***************************************************************************)
(* Model of weather_extractor.py: WeatherExtractor.extract_weather_data_   *)
(* multi (date validation, per-group fetch loop, outer merge on 'time',    *)
(* sort, daily / monthly resampling), get_daily_summary and the part of    *)
(* main() that builds active_groups from the configuration.                *)
(*                                                                         *)
(* Data representation                                                     *)
(*   column name  a sequence of string parts; the parts are concatenated   *)
(*                to give the pandas name: <<"rain">> is 'rain',           *)
(*                <<"rain","_dup">> is 'rain_dup', <<"rain","_mean">> is   *)
(*                'rain_mean'.                                             *)
(*   DataFrame    [cols |-> Seq(column name), rows |-> Seq(row)], a row is *)
(*                a function from the set of column names to cells.        *)
(*   cell         an integer number of thousandths (1234 is 1.234), or NaN *)
(*   timestamp    an integer number of hours since the model's epoch; a    *)
(*                calendar date has HoursPerDay hours and a calendar month *)
(*                DaysPerMonth dates.                                      *)
(***************************************************************************)
EXTENDS Integers, Sequences, FiniteSets, TLC

VARIABLES pc, config, active_groups, start_date, end_date,
          temporal_resolution, idx, requests, responses, all_dataframes,
          merged_df, error, daily_summary

vars == <<pc, config, active_groups, start_date, end_date,
          temporal_resolution, idx, requests, responses, all_dataframes,
          merged_df, error, daily_summary>>

(***************************************************************************)
(* Bounds of the model.                                                    *)
(***************************************************************************)
\* series kept of each response: the first MaxVars requested variables
MaxVars == 1
\* hours in a calendar date, dates in a calendar month of the model's calendar
HoursPerDay == 2
DaysPerMonth == 2
\* rows of a table handed to the merge step in SpecMerge
MaxMergeRows == 2
\* rows of a table handed to the resamplers in SpecResample
MaxRows == 3

Range(s) == {s[i] : i \in 1..Len(s)}

Min(S) == CHOOSE x \in S : \A y \in S : x <= y
Max(S) == CHOOSE x \in S : \A y \in S : x >= y

RECURSIVE SortedSeq(_)
\* the elements of a finite set of integers in ascending order
SortedSeq(S) == IF S = {} THEN <<>>
                ELSE <<Min(S)>> \o SortedSeq(S \ {Min(S)})

RECURSIVE Flatten(_)
\* concatenation of a sequence of sequences
Flatten(ss) == IF ss = <<>> THEN <<>> ELSE Head(ss) \o Flatten(Tail(ss))

(***************************************************************************)
(* The catalog.                                                            *)
(***************************************************************************)
\* iteration order of the VARIABLE_GROUPS dict
GroupOrder == <<"basic_weather", "solar_radiation", "soil">>

VARIABLE_GROUPS ==
  [basic_weather |->
     << "temperature_2m", "apparent_temperature", "relative_humidity_2m",
        "dewpoint_2m", "precipitation", "rain", "snowfall", "wind_speed_10m",
        "wind_direction_10m", "pressure_msl", "surface_pressure",
        "cloud_cover", "cloud_cover_low", "cloud_cover_mid",
        "cloud_cover_high" >>,
   solar_radiation |->
     << "shortwave_radiation", "direct_radiation", "diffuse_radiation" >>,
   soil |->
     << "soil_temperature_0cm", "soil_temperature_6cm",
        "soil_moisture_0_1cm" >>]

GroupNames == DOMAIN VARIABLE_GROUPS

(***************************************************************************)
(* DataFrames.                                                             *)
(***************************************************************************)
\* the missing-value marker of pandas
NaN == -1

TimeCol == <<"time">>
DateCol == <<"date">>

\* the value with which no table was produced
NoFrame == [cols |-> <<>>, rows |-> <<>>]

ColSet(df) == Range(df.cols)
HasTime(df) == TimeCol \in ColSet(df)
Times(df) == {df.rows[i][TimeCol] : i \in 1..Len(df.rows)}

\* col.endswith('_dup')
EndsWithDup(col) == Len(col) > 1 /\ col[Len(col)] = "_dup"

\* df.drop(columns=cs)
DropColumns(df, cs) ==
  LET keep(c) == c \notin cs
      newcols == SelectSeq(df.cols, keep)
  IN [cols |-> newcols,
      rows |-> [i \in 1..Len(df.rows) |->
                  [c \in Range(newcols) |-> df.rows[i][c]]]]

(***************************************************************************)
(* The merge step.                                                         *)
(***************************************************************************)
\* a merge with how='inner': only the keys both sides hold
MergeInner(left, right) ==
  LET lset == ColSet(left)
      notkey(c) == c # TimeCol
      rcols == SelectSeq(right.cols, notkey)
      rname(c) == IF c \in lset THEN c \o <<"_dup">> ELSE c
      newcols == left.cols \o [i \in 1..Len(rcols) |-> rname(rcols[i])]
      orig(c) == rcols[CHOOSE i \in 1..Len(rcols) : rname(rcols[i]) = c]
      pairs(k) ==
        LET hitl(i) == left.rows[i][TimeCol] = k
            hitr(j) == right.rows[j][TimeCol] = k
            L == SelectSeq([i \in 1..Len(left.rows) |-> i], hitl)
            R == SelectSeq([j \in 1..Len(right.rows) |-> j], hitr)
        IN [n \in 1..(Len(L) * Len(R)) |->
              [c \in Range(newcols) |->
                 IF c = TimeCol THEN k
                 ELSE IF c \in lset
                      THEN left.rows[L[((n - 1) \div Len(R)) + 1]][c]
                      ELSE right.rows[R[((n - 1) % Len(R)) + 1]][orig(c)]]]
      keys == SortedSeq(Times(left) \cap Times(right))
  IN [cols |-> newcols,
      rows |-> Flatten([n \in 1..Len(keys) |-> pairs(keys[n])])]

\* pd.merge(left, right, on='time', how='outer', suffixes=('', '_dup')):
\* the keys are the union of both sides' timestamps in ascending order; a
\* key held by both sides gives one row per pair of matching rows; a key
\* held by one side gives that side's rows with NaN in the other side's
\* columns. A column of right whose name left has too is renamed with the
\* suffix '_dup'; left's keeps its name.
MergeOuter(left, right) ==
  LET lset == ColSet(left)
      notkey(c) == c # TimeCol
      rcols == SelectSeq(right.cols, notkey)
      rname(c) == IF c \in lset THEN c \o <<"_dup">> ELSE c
      newcols == left.cols \o [i \in 1..Len(rcols) |-> rname(rcols[i])]
      orig(c) == rcols[CHOOSE i \in 1..Len(rcols) : rname(rcols[i]) = c]
      lidx(k) == LET hit(i) == left.rows[i][TimeCol] = k
                 IN SelectSeq([i \in 1..Len(left.rows) |-> i], hit)
      ridx(k) == LET hit(j) == right.rows[j][TimeCol] = k
                 IN SelectSeq([j \in 1..Len(right.rows) |-> j], hit)
      \* i = 0 or j = 0: the side has no row for the key
      joined(k, i, j) ==
        [c \in Range(newcols) |->
           IF c = TimeCol THEN k
           ELSE IF c \in lset
                THEN (IF i = 0 THEN NaN ELSE left.rows[i][c])
                ELSE (IF j = 0 THEN NaN ELSE right.rows[j][orig(c)])]
      keyrows(k) ==
        LET L == lidx(k)
            R == ridx(k)
        IN IF L = <<>> THEN [n \in 1..Len(R) |-> joined(k, 0, R[n])]
           ELSE IF R = <<>> THEN [n \in 1..Len(L) |-> joined(k, L[n], 0)]
           ELSE [n \in 1..(Len(L) * Len(R)) |->
                   joined(k, L[((n - 1) \div Len(R)) + 1],
                             R[((n - 1) % Len(R)) + 1])]
      keys == SortedSeq(Times(left) \cup Times(right))
  IN [cols |-> newcols,
      rows |-> Flatten([n \in 1..Len(keys) |-> keyrows(keys[n])])]

\* the columns to drop after a merge
DupColumns(m) == {c \in ColSet(m) : EndsWithDup(c)}

\* a merge loop that leaves the '_dup' columns in the table
MergeStepKeepingDup(acc, df) == MergeOuter(acc, df)

\* one turn of the merge loop: the outer merge, then the '_dup' columns
\* are dropped
MergeStep(acc, df) ==
  LET m == MergeOuter(acc, df)
  IN DropColumns(m, DupColumns(m))

RECURSIVE MergeFold(_, _)
MergeFold(acc, rest) ==
  IF rest = <<>> THEN acc ELSE MergeFold(MergeStep(acc, Head(rest)), Tail(rest))

\* merged_df = all_dataframes[0]; for df in all_dataframes[1:]: ...
MergeAll(dfs) == MergeFold(Head(dfs), Tail(dfs))

RECURSIVE InsertByTime(_, _)
\* r put behind the last row of the sorted rows whose timestamp is <= r's
InsertByTime(rows, r) ==
  IF rows = <<>> THEN <<r>>
  ELSE IF rows[Len(rows)][TimeCol] <= r[TimeCol] THEN Append(rows, r)
  ELSE Append(InsertByTime(SubSeq(rows, 1, Len(rows) - 1), r), rows[Len(rows)])

RECURSIVE SortRows(_)
SortRows(rows) ==
  IF rows = <<>> THEN <<>>
  ELSE InsertByTime(SortRows(SubSeq(rows, 1, Len(rows) - 1)), rows[Len(rows)])

\* a run without the sort
SortValuesSkipped(df) == df

\* merged_df.sort_values('time'); rows of equal timestamp keep their order
SortValues(df) == [cols |-> df.cols, rows |-> SortRows(df.rows)]

(***************************************************************************)
(* Resampling.                                                             *)
(***************************************************************************)
\* pd.to_datetime(t).dt.date
DateOf(t) == t \div HoursPerDay
\* pd.to_datetime(t).dt.to_period('M')
MonthOf(t) == DateOf(t) \div DaysPerMonth
\* pd.to_datetime(date): the first instant of the date
DateToTime(d) == d * HoursPerDay
\* pd.to_datetime(str(period)): the first instant of the month
MonthToTime(m) == m * DaysPerMonth * HoursPerDay

RECURSIVE SumSeq(_)
SumSeq(s) == IF s = <<>> THEN 0 ELSE Head(s) + SumSeq(Tail(s))

\* .round(2) of num / den (thousandths): the nearest hundredth, a tie to the
\* even one
Round2(num, den) ==
  LET d == 10 * den
      q == num \div d
      r == num % d
  IN IF 2 * r < d THEN 10 * q
     ELSE IF 2 * r > d THEN 10 * (q + 1)
     ELSE IF q % 2 = 0 THEN 10 * q ELSE 10 * (q + 1)

\* one statistic of a group's cells of one column, NaN cells skipped; mean,
\* min and max of no cell are NaN, their sum is 0
Stat(stat, cells) ==
  LET present(v) == v # NaN
      vals == SelectSeq(cells, present)
  IN IF stat = "_sum" THEN Round2(SumSeq(vals), 1)
     ELSE IF vals = <<>> THEN NaN
     ELSE IF stat = "_mean" THEN Round2(SumSeq(vals), Len(vals))
     ELSE IF stat = "_min" THEN Round2(Min(Range(vals)), 1)
     ELSE Round2(Max(Range(vals)), 1)

\* [col for col in df.columns if col not in ['time', 'date']], and not
\* 'year_month' either in the monthly grouping
NumericCols(df, by) ==
  LET numeric(c) == c \notin {TimeCol, DateCol, <<by>>}
  IN SelectSeq(df.cols, numeric)

\* the flattened columns f"{col}_{stat}": for every column its statistics
StatCols(ncols, stats) ==
  Flatten([i \in 1..Len(ncols) |->
             [s \in 1..Len(stats) |-> ncols[i] \o <<stats[s]>>]])

\* the key of the instant t in a grouping by 'date' or by 'year_month'
KeyOf(by, t) == IF by = "year_month" THEN MonthOf(t) ELSE DateOf(t)

\* df.groupby(by)[numeric_cols].agg(stats).round(2), flattened and the
\* index reset: one row per key present, keys ascending, the key in the
\* first column
Aggregate(df, by, stats) ==
  LET ncols == NumericCols(df, by)
      scols == StatCols(ncols, stats)
      keys == SortedSeq({KeyOf(by, df.rows[i][TimeCol]) : i \in 1..Len(df.rows)})
      group(k) == LET in(r) == KeyOf(by, r[TimeCol]) = k
                  IN SelectSeq(df.rows, in)
      cells(k, c) == LET g == group(k) IN [i \in 1..Len(g) |-> g[i][c]]
      base(sc) == SubSeq(sc, 1, Len(sc) - 1)
  IN [cols |-> <<<<by>>>> \o scols,
      rows |-> [n \in 1..Len(keys) |->
                  [c \in {<<by>>} \cup Range(scols) |->
                     IF c = <<by>> THEN keys[n]
                     ELSE Stat(c[Len(c)], cells(keys[n], base(c)))]]]

\* df['time'] = pd.to_datetime(key column), the key column dropped and
\* 'time' put first
KeyToTime(agg, by) ==
  [cols |-> <<TimeCol>> \o Tail(agg.cols),
   rows |-> [n \in 1..Len(agg.rows) |->
               [c \in {TimeCol} \cup Range(Tail(agg.cols)) |->
                  IF c = TimeCol
                  THEN (IF by = "year_month"
                        THEN MonthToTime(agg.rows[n][<<by>>])
                        ELSE DateToTime(agg.rows[n][<<by>>]))
                  ELSE agg.rows[n][c]]]]

DailyStats == <<"_mean", "_min", "_max">>
MonthlyStats == <<"_mean", "_min", "_max", "_sum">>

\* a daily resampling with the monthly statistics
_resample_to_daily_with_sum(df) ==
  KeyToTime(Aggregate(df, "date", MonthlyStats), "date")

_resample_to_daily(df) == KeyToTime(Aggregate(df, "date", DailyStats), "date")

_resample_to_monthly(df) ==
  KeyToTime(Aggregate(df, "year_month", MonthlyStats), "year_month")

\* df['date'] = pd.to_datetime(df['time']).dt.date, on the caller's table
WithDate(df) ==
  LET newcols == IF DateCol \in ColSet(df) THEN df.cols
                 ELSE Append(df.cols, DateCol)
  IN [cols |-> newcols,
      rows |-> [i \in 1..Len(df.rows) |->
                  [c \in Range(newcols) |->
                     IF c = DateCol THEN DateOf(df.rows[i][TimeCol])
                     ELSE df.rows[i][c]]]]

\* the table get_daily_summary returns: a 'date' column, then four
\* statistics of every column that is neither 'time' nor 'date'
get_daily_summary(df) == Aggregate(WithDate(df), "date", MonthlyStats)

(***************************************************************************)
(* Inputs and responses.                                                   *)
(***************************************************************************)
\* a 'YYYY-MM-DD' string is the triple of its three numbers
Dates == {<<2023, 12, 31>>, <<2024, 1, 1>>}

\* datetime.strptime(s, '%Y-%m-%d')
strptime(s) == [year |-> s[1], month |-> s[2], day |-> s[3]]

\* a >= b of two datetime values
DatetimeGreaterOrEqual(a, b) ==
  \/ a.year > b.year
  \/ a.year = b.year /\ a.month > b.month
  \/ a.year = b.year /\ a.month = b.month /\ a.day >= b.day

\* a > b of two datetime values
DatetimeGreater(a, b) ==
  \/ a.year > b.year
  \/ a.year = b.year /\ a.month > b.month
  \/ a.year = b.year /\ a.month = b.month /\ a.day > b.day

Resolutions == {"hourly", "daily", "monthly"}

\* group identifiers a caller or a configuration may name; the last one is
\* not in the catalog
GroupIds == GroupNames \cup {"air_quality"}

\* a dict from group identifier to bool, as the sequence of its items in
\* insertion order
Mappings ==
  {m \in UNION {[1..n -> GroupIds \X BOOLEAN] : n \in 0..3} :
     \A i, j \in 1..Len(m) : i # j => m[i][1] # m[j][1]}

Keys(m) == {m[i][1] : i \in 1..Len(m)}

\* m.get(k, default)
Get(m, k, default) ==
  IF k \in Keys(m) THEN m[CHOOSE i \in 1..Len(m) : m[i][1] = k][2]
  ELSE default

\* the 'hourly' object of a response body: its keys in order, and the
\* array under each key; a 'time' string is the pair <<date, hour>>
Hourly(keys, data) == [keys |-> keys, data |-> data]

\* the 'hourly' object without keys
EmptyHourly == Hourly(<<>>, <<>>)

\* rows of a payload: the length of its arrays
PayloadLen(h) == IF h.keys = <<>> THEN 0 ELSE Len(h.data[h.keys[1]])

\* pd.to_datetime of a 'time' string
to_datetime(t) == t[1] * HoursPerDay + t[2]

\* the string the archive writes for an instant
TimeString(t) == <<t \div HoursPerDay, t % HoursPerDay>>

\* df = pd.DataFrame(data['hourly']), and df['time'] parsed when present
ParseHourly(h) ==
  [cols |-> [i \in 1..Len(h.keys) |-> <<h.keys[i]>>],
   rows |-> [i \in 1..PayloadLen(h) |->
               [c \in {<<k>> : k \in Range(h.keys)} |->
                  IF c = TimeCol THEN to_datetime(h.data[c[1]][i])
                  ELSE h.data[c[1]][i]]]]

GroupIndex(g) == CHOOSE i \in 1..Len(GroupOrder) : GroupOrder[i] = g

\* the variables of group g whose series the modelled archive returns
Returned(g) ==
  LET vs == VARIABLE_GROUPS[g]
  IN SubSeq(vs, 1, IF Len(vs) < MaxVars THEN Len(vs) ELSE MaxVars)

\* the instants of the two grids on which the modelled archive answers
Grids == {<<0, 1>>, <<1, HoursPerDay>>}

\* a payload of group g on a grid: 'time' and one series per returned
\* variable (keys), its cells depending on the group and the hour
GroupPayload(g, keys, grid) ==
  LET cell(k, i) == IF k = "time" THEN TimeString(grid[i])
                    ELSE 1000 * GroupIndex(g) + 10 * grid[i]
  IN Hourly(keys, [k \in Range(keys) |-> [i \in 1..Len(grid) |-> cell(k, i)]])

\* what one GET may end in: an exception of requests.get, an exception of
\* raise_for_status, or a JSON body with or without an 'hourly' object
Failure(kind) ==
  [status |-> kind, has_hourly |-> FALSE, hourly |-> EmptyHourly]
Body(has, h) == [status |-> "ok", has_hourly |-> has, hourly |-> h]

ResponsesFor(g) ==
  {Failure("ConnectionError"), Failure("HTTPError"),
   Body(FALSE, EmptyHourly),
   Body(TRUE, EmptyHourly),
   Body(TRUE, GroupPayload(g, Returned(g), <<0, 1>>)),
   Body(TRUE, GroupPayload(g, <<"time">> \o Returned(g), <<>>))}
  \cup {Body(TRUE, GroupPayload(g, <<"time">> \o Returned(g), grid)) :
          grid \in Grids}

(***************************************************************************)
(* Errors.                                                                 *)
(***************************************************************************)
NoError == "none"
InvalidDateRange == "ValueError: Start date must be before end date"
NoDataRetrieved == "ValueError: No data was successfully retrieved from any group"
KeyErrorTime == "KeyError: 'time'"
NoTimeColumn == "ValueError: Data must have a 'time' column"

(***************************************************************************)
(* The operations.                                                         *)
(***************************************************************************)
Init ==
  /\ pc = "start"
  /\ config \in Mappings
  /\ start_date \in Dates
  /\ end_date \in Dates
  /\ temporal_resolution \in Resolutions
  /\ active_groups = <<>>
  /\ idx = 0
  /\ requests = <<>>
  /\ responses = <<>>
  /\ all_dataframes = <<>>
  /\ merged_df = NoFrame
  /\ error = NoError
  /\ daily_summary = NoFrame

\* active_groups taken from the configuration as it is
ConfigAsActiveGroups(cfg) == cfg

\* active_groups as main() builds it: one item per catalog group, in the
\* catalog's order, its value read from the configuration
BuildActiveGroups(cfg) ==
  [i \in 1..Len(GroupOrder) |-> <<GroupOrder[i], Get(cfg, GroupOrder[i], FALSE)>>]

\* main(): the mapping is the configuration's 'variable_groups'
Main ==
  /\ pc = "start"
  /\ active_groups' = BuildActiveGroups(config)
  /\ pc' = "call"
  /\ UNCHANGED <<config, start_date, end_date, temporal_resolution, idx,
                 requests, responses, all_dataframes, merged_df, error,
                 daily_summary>>

\* a caller that passes its mapping to extract_weather_data_multi itself
DirectCall ==
  /\ pc = "start"
  /\ active_groups' = config
  /\ pc' = "call"
  /\ UNCHANGED <<config, start_date, end_date, temporal_resolution, idx,
                 requests, responses, all_dataframes, merged_df, error,
                 daily_summary>>

\* extract_weather_data_multi up to the fetch loop
ValidateDates ==
  /\ pc = "call"
  /\ IF DatetimeGreater(strptime(start_date), strptime(end_date))
     THEN /\ error' = InvalidDateRange
          /\ pc' = "failed"
          /\ idx' = idx
     ELSE /\ error' = error
          /\ pc' = "loop"
          /\ idx' = 1
  /\ UNCHANGED <<config, active_groups, start_date, end_date,
                 temporal_resolution, requests, responses, all_dataframes,
                 merged_df, daily_summary>>

\* the items of the mapping that the loop fetches
Fetched(item) == item[2] /\ item[1] \in GroupNames

\* a turn of the loop for an item that is disabled or not in the catalog
SkipGroup ==
  /\ pc = "loop"
  /\ idx <= Len(active_groups)
  /\ ~Fetched(active_groups[idx])
  /\ idx' = idx + 1
  /\ UNCHANGED <<pc, config, active_groups, start_date, end_date,
                 temporal_resolution, requests, responses, all_dataframes,
                 merged_df, error, daily_summary>>

\* the request of a group
Request(g) ==
  [group |-> g, hourly |-> VARIABLE_GROUPS[g], start_date |-> start_date,
   end_date |-> end_date, timezone |-> "auto"]

\* a loop that a failed fetch makes start over with no table
AfterResponseAborting(dfs, resp) ==
  IF resp.status # "ok" THEN <<>>
  ELSE IF ~resp.has_hourly THEN dfs
  ELSE Append(dfs, ParseHourly(resp.hourly))

\* all_dataframes after the response resp: an exception and a body without
\* 'hourly' leave it as it is, every other body appends its table
AfterResponse(dfs, resp) ==
  IF resp.status # "ok" \/ ~resp.has_hourly THEN dfs
  ELSE Append(dfs, ParseHourly(resp.hourly))

\* a turn of the loop for an enabled catalog group: the request and what
\* the archive answers
FetchGroup ==
  /\ pc = "loop"
  /\ idx <= Len(active_groups)
  /\ Fetched(active_groups[idx])
  /\ \E resp \in ResponsesFor(active_groups[idx][1]) :
       /\ requests' = Append(requests, Request(active_groups[idx][1]))
       /\ responses' = Append(responses, resp)
       /\ all_dataframes' = AfterResponse(all_dataframes, resp)
  /\ idx' = idx + 1
  /\ UNCHANGED <<pc, config, active_groups, start_date, end_date,
                 temporal_resolution, merged_df, error, daily_summary>>

\* the resampling a resolution selects
Resample(df, resolution) ==
  IF resolution = "daily" THEN _resample_to_daily(df)
  ELSE IF resolution = "monthly" THEN _resample_to_monthly(df)
  ELSE df

\* the error extract_weather_data_multi ends in after the loop, if any:
\* pd.merge and sort_values raise KeyError for a table without 'time'
ErrorAfterLoop(dfs) ==
  IF dfs = <<>> THEN NoDataRetrieved
  ELSE IF \E i \in 1..Len(dfs) : ~HasTime(dfs[i]) THEN KeyErrorTime
  ELSE NoError

\* extract_weather_data_multi after the loop: the emptiness check, the
\* merge, the sort, the resampling
Finish ==
  /\ pc = "loop"
  /\ idx > Len(active_groups)
  /\ error' = ErrorAfterLoop(all_dataframes)
  /\ IF ErrorAfterLoop(all_dataframes) # NoError
     THEN /\ pc' = "failed"
          /\ merged_df' = merged_df
     ELSE /\ pc' = "done"
          /\ merged_df' = Resample(SortValues(MergeAll(all_dataframes)),
                                   temporal_resolution)
  /\ UNCHANGED <<config, active_groups, start_date, end_date,
                 temporal_resolution, idx, requests, responses,
                 all_dataframes, daily_summary>>

\* get_daily_summary on the returned table (main() with --daily)
GetDailySummary ==
  /\ pc = "done"
  /\ IF HasTime(merged_df)
     THEN /\ daily_summary' = get_daily_summary(merged_df)
          /\ merged_df' = WithDate(merged_df)
          /\ error' = error
          /\ pc' = "summarised"
     ELSE /\ error' = NoTimeColumn
          /\ pc' = "failed"
          /\ UNCHANGED <<merged_df, daily_summary>>
  /\ UNCHANGED <<config, active_groups, start_date, end_date,
                 temporal_resolution, idx, requests, responses,
                 all_dataframes>>

\* a run of extract_weather_data_multi, from main() or from another caller
Next ==
  \/ Main
  \/ DirectCall
  \/ ValidateDates
  \/ SkipGroup
  \/ FetchGroup
  \/ Finish

Spec == Init /\ [][Next]_vars

(***************************************************************************)
(* The merge step and the resamplers on bounded sets of tables: the state  *)
(* after a fetch loop in which the first groups of the catalog were        *)
(* enabled and every one of them was answered with an 'hourly' payload.    *)
(***************************************************************************)
\* sequences over S of length at most n
SeqsUpTo(S, n) == UNION {[1..m -> S] : m \in 0..n}

NonDecreasing(ts) == \A i \in 1..(Len(ts) - 1) : ts[i] <= ts[i + 1]

\* key lists of the payloads handed to the merge step: the second and the
\* third share a variable with the first
MergeKeyLists ==
  {<<"time", "temperature_2m">>, <<"time", "shortwave_radiation">>,
   <<"time", "temperature_2m", "shortwave_radiation">>}

\* two instants of one date and the first instant of the next month
MergeTimes == {0, 1, HoursPerDay * DaysPerMonth}

\* the payload with the keys and the instants ts (in any order, repeated
\* or not); its cells tell the table (k), the row and the instant
MergePayload(keys, ts, k) ==
  LET cell(key, i) == IF key = "time" THEN TimeString(ts[i])
                      ELSE 1000 * k + 100 * i + ts[i]
  IN Hourly(keys, [key \in Range(keys) |-> [i \in 1..Len(ts) |-> cell(key, i)]])

MergePayloads(k) ==
  {MergePayload(keys, ts, k) :
     keys \in MergeKeyLists, ts \in SeqsUpTo(MergeTimes, MaxMergeRows)}

\* the payload of a third table
ThirdPayloads ==
  {MergePayload(<<"time", "shortwave_radiation", "temperature_2m">>,
                <<HoursPerDay * DaysPerMonth, 0>>, 3)}

MergeInputs ==
  {<<a>> : a \in MergePayloads(1)}
  \cup {<<a, a>> : a \in MergePayloads(1)}
  \cup {<<a, b>> : a \in MergePayloads(1), b \in MergePayloads(2)}
  \cup {<<a, b, c>> : a \in MergePayloads(1), b \in MergePayloads(2),
                      c \in ThirdPayloads}

\* instants of the tables handed to the resamplers: two of one date, the
\* first of the next date and the first of the next month
ResampleTimes == {0, 1, HoursPerDay, HoursPerDay * DaysPerMonth}

\* cells of a series: null, 10.0, 20.0, 30.0 and 1.234
Cells == {NaN, 10000, 20000, 30000, 1234}

\* the series of at most n rows: the instants in ascending order (repeated
\* or not) and a cell for each
Series(n) ==
  {tc \in SeqsUpTo(ResampleTimes, n) \X SeqsUpTo(Cells, n) :
     Len(tc[1]) = Len(tc[2]) /\ NonDecreasing(tc[1])}

ResamplePayload(ts, cs) ==
  LET cell(key, i) == IF key = "time" THEN TimeString(ts[i]) ELSE cs[i]
  IN Hourly(<<"time", "temperature_2m">>,
            [key \in {"time", "temperature_2m"} |->
               [i \in 1..Len(ts) |-> cell(key, i)]])

\* a second group's payload with one instant
OneRowPayload ==
  LET cell(key, i) == IF key = "time" THEN TimeString(0) ELSE 30000
  IN Hourly(<<"time", "shortwave_radiation">>,
            [key \in {"time", "shortwave_radiation"} |->
               [i \in 1..1 |-> cell(key, i)]])

\* one series, or a shorter series and the second group's payload
ResampleInputs ==
  {<<ResamplePayload(tc[1], tc[2])>> : tc \in Series(MaxRows)}
  \cup {<<ResamplePayload(tc[1], tc[2]), OneRowPayload>> :
          tc \in Series(MaxRows - 1)}

\* the state after the loop over the first Len(payloads) groups
AfterLoop(payloads) ==
  /\ pc = "loop"
  /\ config = [i \in 1..Len(payloads) |-> <<GroupOrder[i], TRUE>>]
  /\ active_groups = config
  /\ start_date = <<2023, 12, 31>>
  /\ end_date = <<2024, 1, 1>>
  /\ idx = Len(payloads) + 1
  /\ requests = [i \in 1..Len(payloads) |-> Request(GroupOrder[i])]
  /\ responses = [i \in 1..Len(payloads) |-> Body(TRUE, payloads[i])]
  /\ all_dataframes = [i \in 1..Len(payloads) |-> ParseHourly(payloads[i])]
  /\ merged_df = NoFrame
  /\ error = NoError
  /\ daily_summary = NoFrame

InitMerge ==
  /\ temporal_resolution \in Resolutions
  /\ \E payloads \in MergeInputs : AfterLoop(payloads)

NextMerge == Finish

SpecMerge == InitMerge /\ [][NextMerge]_vars

InitResample ==
  /\ temporal_resolution \in Resolutions
  /\ \E payloads \in ResampleInputs : AfterLoop(payloads)

NextResample ==
  \/ Finish
  \/ GetDailySummary

SpecResample == InitResample /\ [][NextResample]_vars

(***************************************************************************)
(* Properties.                                                             *)
(***************************************************************************)
\* the run is past its fetch loop
LoopOver == pc \in {"done", "failed", "summarised"} /\ error # InvalidDateRange

\* the fetch ended in an exception of the transport or of the status check
TransportFailed(r) == r.status \in {"ConnectionError", "HTTPError"}

\* the fetch gave a payload with a 'time' series and a row at least
Succeeded(r) ==
  /\ r.status = "ok"
  /\ r.has_hourly
  /\ "time" \in Range(r.hourly.keys)
  /\ PayloadLen(r.hourly) > 0

\* the body has no 'hourly', or its 'hourly' has no 'time'
Malformed(r) ==
  r.status = "ok" /\ (~r.has_hourly \/ "time" \notin Range(r.hourly.keys))

RequestedGroups == [i \in 1..Len(requests) |-> requests[i].group]

EnabledGroups ==
  LET items == SelectSeq(active_groups, Fetched)
  IN [i \in 1..Len(items) |-> items[i][1]]

\* the run's fetches are successes and transport failures, one success at
\* least
OnlyTransportFailures ==
  /\ LoopOver
  /\ \E i \in 1..Len(responses) : Succeeded(responses[i])
  /\ \A i \in 1..Len(responses) :
       Succeeded(responses[i]) \/ TransportFailed(responses[i])

\* C1: when one fetch at least succeeds and every other one fails with a
\* transport or non-success error, every enabled catalog group was
\* requested, the run does not fail, every variable column of the returned
\* table is a variable of a group whose fetch succeeded, none is a variable
\* of a group whose fetch failed, and (hourly) every row of every successful
\* payload is in the table with its values.
C1_PartialFailureTolerated ==
  OnlyTransportFailures =>
    /\ RequestedGroups = EnabledGroups
    /\ pc # "failed"
    /\ error = NoError
    /\ pc = "done" =>
         /\ \A c \in ColSet(merged_df) \ {TimeCol} :
              \E i \in 1..Len(responses) :
                /\ Succeeded(responses[i])
                /\ c[1] \in Range(VARIABLE_GROUPS[requests[i].group])
         /\ \A i \in 1..Len(responses) :
              TransportFailed(responses[i]) =>
                \A c \in ColSet(merged_df) :
                  c[1] \notin Range(VARIABLE_GROUPS[requests[i].group])
         /\ temporal_resolution = "hourly" =>
              \A i \in 1..Len(responses) :
                Succeeded(responses[i]) =>
                  \A n \in 1..PayloadLen(responses[i].hourly) :
                    \E m \in 1..Len(merged_df.rows) :
                      \A k \in Range(responses[i].hourly.keys) :
                        merged_df.rows[m][<<k>>] =
                          IF k = "time"
                          THEN to_datetime(responses[i].hourly.data[k][n])
                          ELSE responses[i].hourly.data[k][n]

\* a run of three requests, the second failed, the others' rows returned
C1_Witness ==
  /\ pc = "done"
  /\ OnlyTransportFailures
  /\ Len(responses) = 3
  /\ TransportFailed(responses[2])
  /\ Len(merged_df.rows) >= 3

\* C2: whenever no table with a row reaches the merge step (no group
\* enabled, only unknown groups, every fetch failed or gave an empty
\* result), the run fails with NoDataRetrieved and returns no table.
C2_NoDataRetrievedWhenNothingToMerge ==
  (LoopOver /\ \A i \in 1..Len(all_dataframes) : all_dataframes[i].rows = <<>>)
    => (pc = "failed" /\ error = NoDataRetrieved /\ merged_df = NoFrame)

\* C3: a response without 'hourly', or whose 'hourly' has no 'time', counts
\* as a transport failure does: it gives no table to the merge step, and
\* the run does not fail when another group's fetch succeeded.
C3_MalformedResponseTolerated ==
  (/\ LoopOver
   /\ \E i \in 1..Len(responses) : Succeeded(responses[i])
   /\ \A i \in 1..Len(responses) :
        \/ Succeeded(responses[i])
        \/ TransportFailed(responses[i])
        \/ Malformed(responses[i]))
    => /\ pc # "failed"
       /\ Len(all_dataframes) =
            Cardinality({i \in 1..Len(responses) : Succeeded(responses[i])})

IsLeap(y) == y % 4 = 0 /\ (y % 100 # 0 \/ y % 400 = 0)

DaysBeforeMonth ==
  <<0, 31, 59, 90, 120, 151, 181, 212, 243, 273, 304, 334>>

\* the number of the day s in the proleptic Gregorian calendar
DayNumber(s) ==
  LET y == s[1] - 1
  IN 365 * y + (y \div 4) - (y \div 100) + (y \div 400)
     + DaysBeforeMonth[s[2]]
     + (IF s[2] > 2 /\ IsLeap(s[1]) THEN 1 ELSE 0)
     + s[3]

\* C4: once the dates are validated, the run has failed with
\* InvalidDateRange exactly if the start date is a later day than the end
\* date, and then no request was issued.
C4_InvalidDateRangeIffStartAfterEnd ==
  pc \notin {"start", "call"} =>
    /\ (error = InvalidDateRange) <=> (DayNumber(start_date) > DayNumber(end_date))
    /\ error = InvalidDateRange => (pc = "failed" /\ requests = <<>>)
    /\ start_date = end_date => error # InvalidDateRange

\* rejected: the start is a later day although its day of month is smaller
C4_Witness ==
  /\ error = InvalidDateRange
  /\ pc = "failed"
  /\ start_date[3] < end_date[3]
  /\ \E i \in 1..Len(active_groups) : Fetched(active_groups[i])

InCatalogOrder(gs) ==
  \A i, j \in 1..Len(gs) : i < j => GroupIndex(gs[i]) < GroupIndex(gs[j])

\* C5 as claimed: the requests are issued in the catalog's order, whatever
\* the order of the keys of active_groups.
C5_RequestsInCatalogOrder == InCatalogOrder(RequestedGroups)

\* the enabled catalog groups among the first n items of the mapping m
EnabledUpTo(m, n) ==
  LET items == SelectSeq(SubSeq(m, 1, n), Fetched)
  IN [i \in 1..Len(items) |-> items[i][1]]

\* C5 amended: the requests are issued in the order of the keys of
\* active_groups; when active_groups is the mapping main() builds from the
\* configuration, that is the catalog's order, whatever the order of the
\* configuration's keys, and the groups requested are the catalog groups
\* the configuration enables.
C5_RequestsInMappingOrder ==
  /\ (pc = "loop" \/ LoopOver) =>
       RequestedGroups = EnabledUpTo(active_groups, idx - 1)
  /\ (pc # "start" /\ active_groups = BuildActiveGroups(config)) =>
       /\ InCatalogOrder(RequestedGroups)
       /\ LoopOver =>
            Range(RequestedGroups) =
              {g \in GroupNames : Get(config, g, FALSE)}

\* a run of main() whose configuration lists soil before basic_weather
C5_Witness ==
  /\ pc = "done"
  /\ active_groups = BuildActiveGroups(config)
  /\ Len(config) = 2
  /\ config[1] = <<"soil", TRUE>>
  /\ config[2] = <<"basic_weather", TRUE>>
  /\ RequestedGroups = <<"basic_weather", "soil">>

\* the timestamps of a table are pairwise distinct
UniqueTimes(df) == Cardinality(Times(df)) = Len(df.rows)

AllUniqueTimes == \A i \in 1..Len(all_dataframes) : UniqueTimes(all_dataframes[i])

UnionOfTimes == UNION {Times(all_dataframes[i]) : i \in 1..Len(all_dataframes)}

\* the first table of the fold that has the column c
FirstWith(c) ==
  Min({i \in 1..Len(all_dataframes) : c \in ColSet(all_dataframes[i])})

\* in every row, a variable whose (first) table lacks the row's timestamp
\* is missing
MissingSideIsNaN ==
  \A m \in 1..Len(merged_df.rows) :
    \A c \in ColSet(merged_df) \ {TimeCol} :
      merged_df.rows[m][TimeCol] \notin Times(all_dataframes[FirstWith(c)])
        => merged_df.rows[m][c] = NaN

\* C6 as claimed: for all per-group tables the merged table's timestamps
\* are the union of the tables' timestamps, it has as many rows as the
\* union has elements, and the variables of a table that lacks a row's
\* timestamp are missing in that row.
C6_OuterJoinUnionAndRowCount ==
  (pc = "done" /\ temporal_resolution = "hourly") =>
    /\ Times(merged_df) = UnionOfTimes
    /\ Len(merged_df.rows) = Cardinality(UnionOfTimes)
    /\ MissingSideIsNaN

\* C6 amended: the timestamps are the union and the missing side is NaN
\* for all tables; the row count is the size of the union when no table
\* repeats a timestamp.
C6_OuterJoinUnion ==
  (pc = "done" /\ temporal_resolution = "hourly") =>
    /\ Times(merged_df) = UnionOfTimes
    /\ MissingSideIsNaN
    /\ AllUniqueTimes => Len(merged_df.rows) = Cardinality(UnionOfTimes)

\* three tables without repeated timestamps, each lacking a timestamp of
\* another
C6_Witness ==
  /\ pc = "done"
  /\ temporal_resolution = "hourly"
  /\ Len(all_dataframes) = 3
  /\ AllUniqueTimes
  /\ Times(all_dataframes[1]) = {1}
  /\ Times(all_dataframes[2]) = {0, 1}
  /\ \E m \in 1..Len(merged_df.rows) :
       \E c \in ColSet(merged_df) : merged_df.rows[m][c] = NaN

RECURSIVE FirstSeen(_, _)
\* the variable names of the tables dfs in the order they are first seen,
\* behind those of acc
FirstSeen(acc, dfs) ==
  IF dfs = <<>> THEN acc
  ELSE LET new(c) == c # TimeCol /\ c \notin Range(acc)
       IN FirstSeen(acc \o SelectSeq(Head(dfs).cols, new), Tail(dfs))

\* the merge's columns: no '_dup' column, no name twice, 'time' and then
\* every variable name in first-seen order; a column's cells are those of
\* the first table that has it
FirstWriterWins ==
  /\ \A c \in ColSet(merged_df) : ~EndsWithDup(c)
  /\ Cardinality(ColSet(merged_df)) = Len(merged_df.cols)
  /\ merged_df.cols = <<TimeCol>> \o FirstSeen(<<>>, all_dataframes)
  /\ \A m \in 1..Len(merged_df.rows) :
       \A c \in ColSet(merged_df) \ {TimeCol} :
         LET first == all_dataframes[FirstWith(c)]
         IN merged_df.rows[m][TimeCol] \in Times(first) =>
              \E n \in 1..Len(first.rows) :
                /\ first.rows[n][TimeCol] = merged_df.rows[m][TimeCol]
                /\ first.rows[n][c] = merged_df.rows[m][c]

SelfMerge == Len(all_dataframes) = 2 /\ all_dataframes[1] = all_dataframes[2]

\* C7 as claimed: first writer wins, and a table merged with itself gives
\* a table of as many rows and the same columns.
C7_FirstWriterWinsAndSelfMerge ==
  (pc = "done" /\ temporal_resolution = "hourly") =>
    /\ FirstWriterWins
    /\ SelfMerge =>
         /\ Len(merged_df.rows) = Len(all_dataframes[1].rows)
         /\ merged_df.cols = all_dataframes[1].cols

\* C7 amended: first writer wins; a table merged with itself gives the
\* same columns, and as many rows when it repeats no timestamp.
C7_FirstWriterWins ==
  (pc = "done" /\ temporal_resolution = "hourly") =>
    /\ FirstWriterWins
    /\ SelfMerge => merged_df.cols = all_dataframes[1].cols
    /\ (SelfMerge /\ UniqueTimes(all_dataframes[1])) =>
         Len(merged_df.rows) = Len(all_dataframes[1].rows)

\* the second table has both variables, the first only one of them, and
\* they share a timestamp: the second's column of that name was dropped
C7_Witness ==
  /\ pc = "done"
  /\ temporal_resolution = "hourly"
  /\ Len(all_dataframes) = 2
  /\ all_dataframes[1].cols = <<TimeCol, <<"temperature_2m">>>>
  /\ all_dataframes[2].cols =
       <<TimeCol, <<"temperature_2m">>, <<"shortwave_radiation">>>>
  /\ Times(all_dataframes[1]) \cap Times(all_dataframes[2]) # {}
  /\ merged_df.cols =
       <<TimeCol, <<"temperature_2m">>, <<"shortwave_radiation">>>>

\* C10: when no per-group table repeats a timestamp, the rows of the
\* returned table (hourly, daily or monthly) are in strictly ascending
\* order of their timestamps or bucket keys.
C10_RowsSortedAndDistinct ==
  (pc = "done" /\ AllUniqueTimes) =>
    \A m \in 1..(Len(merged_df.rows) - 1) :
      merged_df.rows[m][TimeCol] < merged_df.rows[m + 1][TimeCol]

\* a single table whose rows arrive in descending order
C10_Witness ==
  /\ pc = "done"
  /\ Len(all_dataframes) = 1
  /\ Len(all_dataframes[1].rows) = 2
  /\ all_dataframes[1].rows[1][TimeCol] > all_dataframes[1].rows[2][TimeCol]
  /\ Len(merged_df.rows) = 2

\* the merged hourly table of the run, before any resampling
Hourly_df == SortValues(MergeAll(all_dataframes))

\* the cells of column c of table df in the rows whose bucket is b
BucketCells(df, Bucket(_), b, c) ==
  LET in(r) == Bucket(r[TimeCol]) = b
      g == SelectSeq(df.rows, in)
  IN [i \in 1..Len(g) |-> g[i][c]]

AllMissing(cells) == \A i \in 1..Len(cells) : cells[i] = NaN

\* the name of the variable of a statistic column
VarOf(c) == SubSeq(c, 1, Len(c) - 1)

DayStart(t) == DateToTime(DateOf(t))
MonthStart(t) == MonthToTime(MonthOf(t))

\* in table out, resampled from table src by Bucket and keyed by column
\* key, every statistic of a variable whose cells in the bucket are all
\* missing is missing
MissingStaysMissing(out, src, Bucket(_), key) ==
  \A m \in 1..Len(out.rows) :
    \A c \in ColSet(out) \ {key} :
      AllMissing(BucketCells(src, Bucket, out.rows[m][key], VarOf(c)))
        => out.rows[m][c] = NaN

\* C8: in the daily table, the monthly table and the daily summary, every
\* statistic (mean, min, max, and sum where emitted) of a variable whose
\* values in the bucket are all missing is the missing-value marker.
C8_AllMissingBucketGivesMissing ==
  /\ (pc = "done" /\ temporal_resolution = "daily") =>
       MissingStaysMissing(merged_df, Hourly_df, DayStart, TimeCol)
  /\ (pc = "done" /\ temporal_resolution = "monthly") =>
       MissingStaysMissing(merged_df, Hourly_df, MonthStart, TimeCol)
  /\ (pc = "summarised" /\ temporal_resolution = "hourly") =>
       MissingStaysMissing(daily_summary, Hourly_df, DateOf, DateCol)

\* the cells that are not missing
Present(cells) == LET present(v) == v # NaN IN SelectSeq(cells, present)

\* s is the number num / den, exactly
Exact(s, num, den) == s * den = num

\* s is the hundredth nearest to the number num / den
Rounded(s, num, den) ==
  /\ s % 10 = 0
  /\ 2 * (s * den - num) <= 10 * den
  /\ 2 * (num - s * den) <= 10 * den

\* table out has one row per bucket of src's timestamps, its key column
\* holding the bucket, and for every variable of src exactly the columns
\* of the statistics stats, in that order
BucketsAndColumns(out, src, Bucket(_), key, stats) ==
  /\ {out.rows[m][key] : m \in 1..Len(out.rows)} =
       {Bucket(src.rows[i][TimeCol]) : i \in 1..Len(src.rows)}
  /\ Len(out.rows) =
       Cardinality({Bucket(src.rows[i][TimeCol]) : i \in 1..Len(src.rows)})
  /\ ColSet(out) =
       {key} \cup {v \o <<st>> : v \in ColSet(src) \ {TimeCol, DateCol},
                                st \in stats}
  /\ Len(out.cols) = Cardinality(ColSet(out))

\* in table out the mean, the minimum and the maximum of every variable
\* are (as Is tells) those of the bucket's values that are not missing
MeanMinMax(out, src, Bucket(_), key, Is(_, _, _)) ==
  \A m \in 1..Len(out.rows) :
    \A v \in ColSet(src) \ {TimeCol, DateCol} :
      LET vals == Present(BucketCells(src, Bucket, out.rows[m][key], v))
      IN vals # <<>> =>
           /\ Is(out.rows[m][v \o <<"_mean">>], SumSeq(vals), Len(vals))
           /\ Is(out.rows[m][v \o <<"_min">>], Min(Range(vals)), 1)
           /\ Is(out.rows[m][v \o <<"_max">>], Max(Range(vals)), 1)

\* what C9 says of the resolutions, a statistic being as Is tells
StatisticSets(Is(_, _, _)) ==
  /\ (pc = "done" /\ temporal_resolution = "hourly") =>
       /\ \A c \in ColSet(merged_df) : Len(c) = 1
       /\ Len(all_dataframes) = 1 => merged_df = all_dataframes[1]
  /\ (pc = "done" /\ temporal_resolution = "daily") =>
       /\ BucketsAndColumns(merged_df, Hourly_df, DayStart, TimeCol,
                            {"_mean", "_min", "_max"})
       /\ MeanMinMax(merged_df, Hourly_df, DayStart, TimeCol, Is)
  /\ (pc = "done" /\ temporal_resolution = "monthly") =>
       BucketsAndColumns(merged_df, Hourly_df, MonthStart, TimeCol,
                         {"_mean", "_min", "_max", "_sum"})
  /\ pc = "summarised" =>
       BucketsAndColumns(daily_summary, merged_df, DateOf, DateCol,
                         {"_mean", "_min", "_max", "_sum"})

\* C9 as claimed: hourly returns the merged table unchanged; daily has one
\* row per date and per variable exactly mean, min and max, each equal to
\* the statistic of the date's values that are not missing; monthly has one
\* row per month at the month's first instant and mean, min, max and sum;
\* the daily summary has one row per date and the sum as well.
C9_StatisticSetsExact == StatisticSets(Exact)

\* C9 amended: the same, the daily statistics being rounded to two
\* decimal places.
C9_StatisticSetsRounded == StatisticSets(Rounded)

\* a date with the values 10, 20 and 30 (mean 20, min 10, max 30)
C9_Witness ==
  /\ pc = "done"
  /\ temporal_resolution = "daily"
  /\ Len(all_dataframes) = 1
  /\ Len(all_dataframes[1].rows) = 3
  /\ Len(merged_df.rows) = 1
  /\ merged_df.rows[1][<<"temperature_2m", "_mean">>] = 20000
  /\ merged_df.rows[1][<<"temperature_2m", "_min">>] = 10000
  /\ merged_df.rows[1][<<"temperature_2m", "_max">>] = 30000

====
